---------------------------- MODULE Spec2Model ----------------------------
(***************************************************************************)
(* A model of the j-archive scraper: the per-game extraction pipeline of   *)
(* src/scraper/utils/parsers.py, driven by the two scrape_episode entry    *)
(* points (src/scraper/episode_scraper.py and src/j_archive_scraper.py).   *)
(*                                                                         *)
(* Python / pandas values are tagged tuples, so that a column may hold     *)
(* values of several Python types, as an object column does:               *)
(*   <<"None">>  <<"nan">>  <<"bool", b>>  <<"int", n>>  <<"float", n>>    *)
(*   <<"str", s>>  (s a sequence of one-character strings)                 *)
(*   <<"text", t>> (t an opaque text: a prompt, a category name)           *)
(***************************************************************************)
EXTENDS Integers, Sequences, FiniteSets, TLC

VARIABLES
  pc,          \* the position of scrape_episode
  entry,       \* which scrape_episode runs: "modular" or "script"
  doc,         \* the page the archive served for the game
  meta,        \* the dict parse_metadata returned
  rounds_df,   \* parse_rounds' DataFrame: one row per clue
  episode_df,  \* the merged frame: one row per (clue, responder)
  table,       \* the DataFrame scrape_episode returned
  outcome,     \* "running", "returned", or the exception raised
  name_map,    \* the dict name_to_full_name_map made last: name -> full name
  id_map,      \* the dict name_to_full_name_map made last: name -> player id
  loop_i,      \* __main__'s loop: the number of games of the run already done
  stop,        \* __main__'s loop: the number of games of the run
  persisted    \* the game ids whose csv file __main__ has written

vars == <<pc, entry, doc, meta, rounds_df, episode_df, table, outcome,
          name_map, id_map, loop_i, stop, persisted>>

\* the dicts of the name resolution, and the state of the run
name_vars == <<name_map, id_map>>
run_vars == <<loop_i, stop, persisted>>

-----------------------------------------------------------------------------
(* Python values *)

None == <<"None">>
NaN == <<"nan">>
PyBool(b) == <<"bool", b>>
PyInt(n) == <<"int", n>>
PyFloat(n) == <<"float", n>>
PyStr(s) == <<"str", s>>
Text(t) == <<"text", t>>

\* pandas isna(): None and NaN are both missing values
isna(v) == v[1] \in {"None", "nan"}

IsTrue(v) == v = PyBool(TRUE)

-----------------------------------------------------------------------------
(* Strings as sequences of characters *)

DigitChars == <<"0", "1", "2", "3", "4", "5", "6", "7", "8", "9">>

\* code point order of the characters the documents use
Alphabet ==
  <<" ", "$", ",", "0", "1", "2", "3", "4", "5", "6", "7", "8", "9", ":",
    "A", "B", "C", "D", "F", "J", "L", "M", "R", "S", "T", "W", "Y", "_",
    "a", "b", "d", "e", "i", "l", "m", "n", "o", "p", "r", "s", "t", "u", "y">>

Ord(c) == CHOOSE i \in 1..Len(Alphabet) : Alphabet[i] = c

\* Python's str < str: lexicographic by code point, a proper prefix first
RECURSIVE StrLess(_, _)
StrLess(s, t) ==
  IF t = <<>> THEN FALSE
  ELSE IF s = <<>> THEN TRUE
  ELSE IF s[1] = t[1] THEN StrLess(Tail(s), Tail(t))
  ELSE Ord(s[1]) < Ord(t[1])

\* str(n) for n >= 0
RECURSIVE IntStr(_)
IntStr(n) ==
  IF n < 10 THEN <<DigitChars[n + 1]>>
  ELSE IntStr(n \div 10) \o <<DigitChars[(n % 10) + 1]>>

DigitVal(c) == (CHOOSE i \in 1..10 : DigitChars[i] = c) - 1

\* int(s) / float(s) of a string of decimal digits
RECURSIVE StrInt(_)
StrInt(s) ==
  IF s = <<>> THEN 0
  ELSE 10 * StrInt(SubSeq(s, 1, Len(s) - 1)) + DigitVal(s[Len(s)])

StartsWith(s, sub) ==
  Len(sub) <= Len(s) /\ SubSeq(s, 1, Len(sub)) = sub

\* s.replace(sub, ''): every non-overlapping occurrence, left to right
RECURSIVE Remove(_, _)
Remove(s, sub) ==
  IF s = <<>> THEN <<>>
  ELSE IF StartsWith(s, sub) THEN Remove(SubSeq(s, Len(sub) + 1, Len(s)), sub)
  ELSE <<s[1]>> \o Remove(Tail(s), sub)


-----------------------------------------------------------------------------
(* The game page: what BeautifulSoup's selectors return on it *)

Amy == <<"A", "m", "y">>
Bob == <<"B", "o", "b">>
Cy == <<"C", "y">>
AmyLee == <<"A", "m", "y", " ", "L", "e", "e">>
BobRay == <<"B", "o", "b", " ", "R", "a", "y">>
CyDole == <<"C", "y", " ", "D", "o", "l", "e">>

\* the text of the archive's marker for a clue nobody answered correctly
TripleStumper ==
  <<"T", "r", "i", "p", "l", "e", " ", "S", "t", "u", "m", "p", "e", "r">>

NumCategories == 6
NumRows == 5
NumClues == NumCategories * NumRows

\* the largest number of .wrong elements in a response fragment of the pages
MaxWrong == 2
\* the largest number of contestants in the final round's response table
MaxFinalists == 3

\* the order in which the clues of a board were picked: category by
\* category, top to bottom (i is the 0-based traversal position of the cell)
PickOrder(i) == (i % NumCategories) * NumRows + (i \div NumCategories) + 1

\* the face value printed on a revealed clue of round r in board row k
FaceValue(r, k, long_date) ==
  r * k * (IF long_date[3] >= 2002 \/ long_date = <<"November", 26, 2001>>
           THEN 200 ELSE 100)

SeqsUpTo(S, n) == UNION {[1..m -> S] : m \in 0..n}

RightSeqs == {<<>>, <<Amy>>, <<Amy, Bob>>}
WrongSeqs == SeqsUpTo({Bob, Cy, TripleStumper}, MaxWrong)

BlankKind == [blank |-> TRUE, dd |-> FALSE, right |-> <<>>, wrong |-> <<>>]
PlainKind == [blank |-> FALSE, dd |-> FALSE, right |-> <<Amy>>, wrong |-> <<>>]
MissedDDKind == [blank |-> FALSE, dd |-> TRUE, right |-> <<>>, wrong |-> <<Bob>>]
RevealedKinds ==
  [blank : {FALSE}, dd : BOOLEAN, right : RightSeqs, wrong : WrongSeqs]
Kinds == RevealedKinds \cup {BlankKind}

\* an amount as the archive prints it: $200, $1,500
Money(v) ==
  IF v < 1000 THEN <<"$">> \o IntStr(v)
  ELSE <<"$">> \o IntStr(v \div 1000) \o <<",">>
       \o <<DigitChars[((v \div 100) % 10) + 1], DigitChars[((v \div 10) % 10) + 1],
            DigitChars[(v % 10) + 1]>>

\* the wager of the daily double at position i
Wager(i) == 100 * (i + 1)

\* one .clue cell of round r at traversal position i
Cell(r, i, kind, long_date) ==
  [blank |-> kind.blank,
   dd |-> kind.dd,
   value_text |->
     IF kind.blank THEN <<>>
     ELSE IF kind.dd THEN <<"D", "D", ":", " ">> \o Money(Wager(i))
     ELSE Money(FaceValue(r, (i \div NumCategories) + 1, long_date)),
   href_id |-> IF kind.blank THEN <<>> ELSE IntStr(r * 100 + i),
   clue_text |-> IF kind.blank THEN "" ELSE "prompt",
   order_number |-> IF kind.blank THEN <<>> ELSE IntStr(PickOrder(i)),
   correct_response |-> IF kind.blank THEN "" ELSE "response",
   right |-> kind.right,
   wrong |-> kind.wrong]

CategoryNames(r) ==
  IF r = 1 THEN <<"J1", "J2", "J3", "J4", "J5", "J6">>
  ELSE <<"D1", "D2", "D3", "D4", "D5", "D6">>

\* a board: the cell at position sp of round sr has kind k; the clues picked
\* after the first nrev stayed unrevealed; every other clue is a plain one.
\* A page with the defect "round" lacks the last .clue cell of round 2.
Board(r, g) ==
  [categories |-> CategoryNames(r),
   clues |->
     [n \in 1..(IF g.defect = "round" /\ r = 2 THEN NumClues - 1 ELSE NumClues) |->
        LET i == n - 1 IN
        Cell(r, i,
             IF r = g.sr /\ i = g.sp THEN g.kind
             ELSE IF PickOrder(i) > g.nrev THEN BlankKind
             ELSE PlainKind,
             g.date)]]

FinalNames == <<Amy, Bob, Cy, Amy>>
FinalWagers ==
  <<<<"$", "1", ",", "0", "0", "0">>, <<"$", "5", "0", "0">>, <<"$", "0">>,
    <<"$", "2", "5">>>>

\* the final round's response table: two <tr> per contestant, the name cell
\* carrying the class right or wrong
FinalTable(fj) ==
  [n \in 1..(2 * Len(fj)) |->
     LET c == (n + 1) \div 2 IN
     IF n % 2 = 1
     THEN [cls |-> IF fj[c] THEN "right" ELSE "wrong",
           tds |-> <<FinalNames[c], <<"w", "h", "a", "t">>>>]
     ELSE [cls |-> "", tds |-> <<FinalWagers[c]>>]]

FullRegistry == <<<<AmyLee, <<"1">>>>, <<BobRay, <<"2">>>>, <<CyDole, <<"3">>>>>>

\* the response table whose first <tr> lacks the response cell
DropResponse(trs) ==
  IF trs = <<>> THEN trs ELSE [trs EXCEPT ![1].tds = <<trs[1].tds[1]>>]

\* the selectors for which select_one finds no element on the page
Missing(g) ==
  IF g.defect = "title" THEN {"#game_title"}
  ELSE IF g.defect = "final" THEN {".final_round"}
  ELSE {}

Page(g) ==
  [missing |-> Missing(g),
   title |-> [show |-> <<"4", "0", "0", "0">>, long_date |-> g.date],
   contestants |-> g.registry,
   rounds |-> <<Board(1, g), Board(2, g)>>,
   final |-> [category |-> "FINAL", clue_text |-> "final prompt",
              correct_response |-> "final response",
              trs |-> IF g.defect = "final_row"
                      THEN DropResponse(FinalTable(g.fj))
                      ELSE FinalTable(g.fj)]]


-----------------------------------------------------------------------------
(* parse_metadata *)

MonthNames ==
  <<"January", "February", "March", "April", "May", "June", "July",
    "August", "September", "October", "November", "December">>

\* datetime.strptime(long_date, '%B %d, %Y').date(), as <<year, month, day>>
strptime(long_date) ==
  <<long_date[3],
    CHOOSE m \in 1..Len(MonthNames) : MonthNames[m] = long_date[1],
    long_date[2]>>

\* the dict parse_metadata returns: its keys are exactly these three
parse_metadata(page_html) ==
  [date |-> strptime(page_html.title.long_date),
   show_num |-> PyStr(page_html.title.show),
   contestants |-> page_html.contestants]

-----------------------------------------------------------------------------
(* parse_category_name, parse_value, parse_response, parse_clues *)

parse_category_name(board_html) ==
  [n \in 1..Len(board_html.categories) |-> Text(board_html.categories[n])]

parse_value(clue_html) ==
  IF clue_html.dd
  THEN [value |-> None,
        was_daily_double |-> PyBool(TRUE),
        wager |-> PyStr(Remove(Remove(Remove(clue_html.value_text,
                                             <<"D", "D", ":", " ">>),
                                      <<"$">>),
                               <<",">>))]
  ELSE [value |-> PyStr(Remove(Remove(clue_html.value_text, <<"$">>), <<",">>)),
        was_daily_double |-> PyBool(FALSE),
        wager |-> None]

Responder(name, was_correct) == [name |-> name, was_correct |-> was_correct]

\* (mutant) every .wrong element is appended, the marker's too
IncorrectResponders_with_marker(wrong) ==
  [k \in 1..Len(wrong) |-> Responder(PyStr(wrong[k]), PyBool(FALSE))]

\* the responders appended for the .wrong elements, in markup order
RECURSIVE IncorrectResponders(_)
IncorrectResponders(wrong) ==
  IF wrong = <<>> THEN <<>>
  ELSE IF wrong[1] = TripleStumper THEN IncorrectResponders(Tail(wrong))
  ELSE <<Responder(PyStr(wrong[1]), PyBool(FALSE))>>
       \o IncorrectResponders(Tail(wrong))

\* (mutant) select('.right'): every .right element becomes a correct responder
CorrectResponders_all(right) ==
  [k \in 1..Len(right) |-> Responder(PyStr(right[k]), PyBool(TRUE))]

\* select_one('.right'): the first .right element only
CorrectResponders(right) ==
  IF right = <<>> THEN <<>>
  ELSE <<Responder(PyStr(right[1]), PyBool(TRUE))>>

parse_response(clue_html) ==
  LET responders == CorrectResponders(clue_html.right)
                    \o IncorrectResponders(clue_html.wrong)
      marked == \E n \in 1..Len(clue_html.wrong) :
                  clue_html.wrong[n] = TripleStumper
  IN IF responders = <<>>
     THEN [correct_response |-> Text(clue_html.correct_response),
           responders |-> <<Responder(None, None)>>,
           was_triple_stumper |-> PyBool(TRUE)]
     ELSE [correct_response |-> Text(clue_html.correct_response),
           responders |-> responders,
           was_triple_stumper |-> PyBool(marked)]

\* the row of parse_clues' DataFrame for one .clue cell
ClueDict(clue_html) ==
  IF ~clue_html.blank
  THEN LET value_dict == parse_value(clue_html)
           response_dict == parse_response(clue_html)
       IN [clue_id |-> PyStr(clue_html.href_id),
           clue_location |-> NaN,
           answer |-> Text(clue_html.clue_text),
           order_num |-> PyStr(clue_html.order_number),
           was_revealed |-> PyBool(TRUE),
           value |-> value_dict.value,
           was_daily_double |-> value_dict.was_daily_double,
           wager |-> value_dict.wager,
           correct_response |-> response_dict.correct_response,
           responders |-> response_dict.responders,
           was_triple_stumper |-> response_dict.was_triple_stumper]
  ELSE [clue_id |-> NaN,
        clue_location |-> NaN,
        answer |-> NaN,
        order_num |-> NaN,
        was_revealed |-> PyBool(FALSE),
        value |-> NaN,
        was_daily_double |-> NaN,
        wager |-> NaN,
        correct_response |-> NaN,
        responders |-> <<Responder(None, None)>>,
        was_triple_stumper |-> NaN]

parse_clues(board_html) ==
  [n \in 1..Len(board_html.clues) |-> ClueDict(board_html.clues[n])]


-----------------------------------------------------------------------------
(* infer_clue_location, infer_missing_value, parse_rounds *)

\* (mutant) the table written category by category
clue_locations_category_major ==
  [n \in 1..30 |->
     <<"J", "_", DigitChars[((n - 1) \div 5) + 2], "_",
       DigitChars[((n - 1) % 5) + 2]>>]

clue_locations ==
  <<<<"J", "_", "1", "_", "1">>, <<"J", "_", "2", "_", "1">>, <<"J", "_", "3", "_", "1">>,
    <<"J", "_", "4", "_", "1">>, <<"J", "_", "5", "_", "1">>, <<"J", "_", "6", "_", "1">>,
    <<"J", "_", "1", "_", "2">>, <<"J", "_", "2", "_", "2">>, <<"J", "_", "3", "_", "2">>,
    <<"J", "_", "4", "_", "2">>, <<"J", "_", "5", "_", "2">>, <<"J", "_", "6", "_", "2">>,
    <<"J", "_", "1", "_", "3">>, <<"J", "_", "2", "_", "3">>, <<"J", "_", "3", "_", "3">>,
    <<"J", "_", "4", "_", "3">>, <<"J", "_", "5", "_", "3">>, <<"J", "_", "6", "_", "3">>,
    <<"J", "_", "1", "_", "4">>, <<"J", "_", "2", "_", "4">>, <<"J", "_", "3", "_", "4">>,
    <<"J", "_", "4", "_", "4">>, <<"J", "_", "5", "_", "4">>, <<"J", "_", "6", "_", "4">>,
    <<"J", "_", "1", "_", "5">>, <<"J", "_", "2", "_", "5">>, <<"J", "_", "3", "_", "5">>,
    <<"J", "_", "4", "_", "5">>, <<"J", "_", "5", "_", "5">>, <<"J", "_", "6", "_", "5">>>>

\* (mutant) the coordinates of the table, with no prefix in round 2
infer_clue_location_no_prefix(df) ==
  [n \in 1..Len(df) |->
     [df[n] EXCEPT !.clue_location = PyStr(clue_locations[n])]]

\* df['clue_location'] = clue_locations, then the 'D' prefix in round 2
infer_clue_location(df) ==
  [n \in 1..Len(df) |->
     [df[n] EXCEPT !.clue_location =
        IF df[n].round_num = PyInt(2)
        THEN PyStr(<<"D">> \o clue_locations[n])
        ELSE PyStr(clue_locations[n])]]

\* (mutant) dt > date(2001, 11, 26)
OnOrAfterDoubling_strict(dt) ==
  \/ dt[1] > 2001
  \/ dt[1] = 2001 /\ dt[2] > 11
  \/ dt[1] = 2001 /\ dt[2] = 11 /\ dt[3] > 26

\* dt >= date(2001, 11, 26), dates being <<year, month, day>>
OnOrAfterDoubling(dt) ==
  \/ dt[1] > 2001
  \/ dt[1] = 2001 /\ dt[2] > 11
  \/ dt[1] = 2001 /\ dt[2] = 11 /\ dt[3] >= 26

money_multiple(dt) == IF OnOrAfterDoubling(dt) THEN 200 ELSE 100

\* df['clue_location'].str[-1].astype(int)
LocationRow(clue_location) ==
  DigitVal(clue_location[2][Len(clue_location[2])])

\* the fill value of one row: round_num * row * money_multiple
FillValue(row, dt) ==
  PyInt(row.round_num[2] * LocationRow(row.clue_location) * money_multiple(dt))

\* (mutant) only the daily doubles are filled
infer_missing_value_dd_only(df, dt) ==
  [n \in 1..Len(df) |->
     IF isna(df[n].value) /\ df[n].was_daily_double = PyBool(TRUE)
     THEN [df[n] EXCEPT !.value = FillValue(df[n], dt)]
     ELSE df[n]]

\* df['value'].fillna(..., inplace=True): every missing value is filled
infer_missing_value(df, dt) ==
  [n \in 1..Len(df) |->
     IF isna(df[n].value)
     THEN [df[n] EXCEPT !.value = FillValue(df[n], dt)]
     ELSE df[n]]

\* (mutant) each category five times in a row: a category-major order
Repeat5_category_major(categories) ==
  [n \in 1..(5 * Len(categories)) |-> categories[((n - 1) \div 5) + 1]]

\* categories * 5
Repeat5(categories) ==
  [n \in 1..(5 * Len(categories)) |->
     categories[((n - 1) % Len(categories)) + 1]]

\* the body of parse_rounds' loop for the board of index round_num (0-based)
ParseBoard(board, round_num, episode_date) ==
  LET categories == parse_category_name(board)
      clue_df == parse_clues(board)
      with_cat == [n \in 1..Len(clue_df) |->
                     [category |-> Repeat5(categories)[n],
                      round_num |-> PyInt(round_num + 1)] @@ clue_df[n]]
  IN infer_missing_value(infer_clue_location(with_cat), episode_date)

\* the assignments of a column from a list raise ValueError unless the
\* lengths agree
BoardShapeOk(board) ==
  /\ 5 * Len(board.categories) = Len(board.clues)
  /\ Len(board.clues) = Len(clue_locations)

RECURSIVE ConcatBoards(_, _, _)
ConcatBoards(boards, round_num, episode_date) ==
  IF round_num >= Len(boards) THEN <<>>
  ELSE ParseBoard(boards[round_num + 1], round_num, episode_date)
       \o ConcatBoards(boards, round_num + 1, episode_date)

parse_rounds(page_soup, episode_date) ==
  ConcatBoards(page_soup.rounds, 0, episode_date)


-----------------------------------------------------------------------------
(* scrape_episode: flattening the responders (to_json, json_normalize) *)

\* to_json writes a missing value as null, and json.loads reads null as None
ToJson(v) == IF isna(v) THEN None ELSE v

\* the rows json_normalize makes of one clue: one per responder, the clue's
\* other fields repeated as meta columns
ClueRows(clue) ==
  [k \in 1..Len(clue.responders) |->
     [name |-> ToJson(clue.responders[k].name),
      was_correct |-> ToJson(clue.responders[k].was_correct),
      clue_id |-> ToJson(clue.clue_id),
      clue_location |-> ToJson(clue.clue_location),
      answer |-> ToJson(clue.answer),
      order_num |-> ToJson(clue.order_num),
      value |-> ToJson(clue.value),
      was_daily_double |-> ToJson(clue.was_daily_double),
      correct_response |-> ToJson(clue.correct_response),
      category |-> ToJson(clue.category),
      round_num |-> ToJson(clue.round_num),
      was_triple_stumper |-> ToJson(clue.was_triple_stumper),
      wager |-> ToJson(clue.wager),
      was_revealed |-> ToJson(clue.was_revealed)]]

\* the rows of the clues lo..hi, in clue order (split in halves)
RECURSIVE RowsOfClues(_, _, _)
RowsOfClues(rounds, lo, hi) ==
  IF lo > hi THEN <<>>
  ELSE IF lo = hi THEN ClueRows(rounds[lo])
  ELSE LET mid == (lo + hi) \div 2
       IN RowsOfClues(rounds, lo, mid) \o RowsOfClues(rounds, mid + 1, hi)

json_normalize(rounds) == RowsOfClues(rounds, 1, Len(rounds))

-----------------------------------------------------------------------------
(* parse_fj *)

\* (mutant) select_one('.right'): the first <tr> alone is looked at
correct_responders_first(trs) ==
  IF trs # <<>> /\ trs[1].cls = "right" THEN <<trs[1].tds[1]>> ELSE <<>>

\* the texts of the .right elements of the response fragment
RECURSIVE correct_responders(_)
correct_responders(trs) ==
  IF trs = <<>> THEN <<>>
  ELSE (IF trs[1].cls = "right" THEN <<trs[1].tds[1]>> ELSE <<>>)
       \o correct_responders(Tail(trs))

\* the loop over the <tr>: an even row starts a table row, the odd row after
\* it completes and appends it
FinalRows(trs) ==
  [k \in 1..(Len(trs) \div 2) |-> trs[2 * k - 1].tds \o trs[2 * k].tds]

\* DataFrame(rows, columns=['name', 'response', 'wager']) raises ValueError
\* unless every row has three cells
FinalShapeOk(final) ==
  \A k \in 1..(Len(final.trs) \div 2) : Len(FinalRows(final.trs)[k]) = 3

InSeq(x, seq) == \E n \in 1..Len(seq) : seq[n] = x

\* (mutant) the value of a final-round row is filled from its wager
parse_fj_value_from_wager(page_soup) ==
  LET fj_board == page_soup.final
      correct == correct_responders(fj_board.trs)
      rows == FinalRows(fj_board.trs)
  IN [k \in 1..Len(rows) |->
        [name |-> PyStr(rows[k][1]),
         wager |-> PyStr(Remove(Remove(rows[k][3], <<"$">>), <<",">>)),
         clue_id |-> None,
         clue_location |-> PyStr(<<"F", "J">>),
         answer |-> Text(fj_board.clue_text),
         category |-> Text(fj_board.category),
         correct_response |-> Text(fj_board.correct_response),
         round_num |-> PyInt(3),
         was_daily_double |-> PyBool(FALSE),
         order_num |-> PyInt(1),
         was_correct |-> PyBool(InSeq(rows[k][1], correct)),
         was_triple_stumper |-> PyBool(Len(correct) = 0),
         value |-> PyStr(Remove(Remove(rows[k][3], <<"$">>), <<",">>)),
         was_revealed |-> PyBool(TRUE)]]

parse_fj(page_soup) ==
  LET fj_board == page_soup.final
      correct == correct_responders(fj_board.trs)
      rows == FinalRows(fj_board.trs)
  IN [k \in 1..Len(rows) |->
        [name |-> PyStr(rows[k][1]),
         wager |-> PyStr(Remove(Remove(rows[k][3], <<"$">>), <<",">>)),
         clue_id |-> None,
         clue_location |-> PyStr(<<"F", "J">>),
         answer |-> Text(fj_board.clue_text),
         category |-> Text(fj_board.category),
         correct_response |-> Text(fj_board.correct_response),
         round_num |-> PyInt(3),
         was_daily_double |-> PyBool(FALSE),
         order_num |-> PyInt(1),
         was_correct |-> PyBool(InSeq(rows[k][1], correct)),
         was_triple_stumper |-> PyBool(Len(correct) = 0),
         value |-> None,
         was_revealed |-> PyBool(TRUE)]]


-----------------------------------------------------------------------------
(* name_to_full_name_map: difflib.get_close_matches *)

\* the length of the common run of a from i and b from j
RECURSIVE MatchLen(_, _, _, _, _, _)
MatchLen(a, b, i, j, ahi, bhi) ==
  IF i <= ahi /\ j <= bhi /\ a[i] = b[j]
  THEN 1 + MatchLen(a, b, i + 1, j + 1, ahi, bhi)
  ELSE 0

\* SequenceMatcher.find_longest_match on a[alo..ahi], b[blo..bhi]: <<i, j, k>>,
\* the longest block, of those the earliest in a, of those the earliest in b
find_longest_match(a, b, alo, ahi, blo, bhi) ==
  LET starts == (alo..ahi) \X (blo..bhi)
      size(p) == MatchLen(a, b, p[1], p[2], ahi, bhi)
      best == CHOOSE p \in starts :
                \A q \in starts :
                  \/ size(q) < size(p)
                  \/ size(q) = size(p)
                     /\ (p[1] < q[1] \/ (p[1] = q[1] /\ p[2] <= q[2]))
  IN <<best[1], best[2], size(best)>>

\* the sum of the sizes of SequenceMatcher.get_matching_blocks
RECURSIVE Matches(_, _, _, _, _, _)
Matches(a, b, alo, ahi, blo, bhi) ==
  IF alo > ahi \/ blo > bhi THEN 0
  ELSE LET m == find_longest_match(a, b, alo, ahi, blo, bhi)
       IN IF m[3] = 0 THEN 0
          ELSE m[3]
               + Matches(a, b, alo, m[1] - 1, blo, m[2] - 1)
               + Matches(a, b, m[1] + m[3], ahi, m[2] + m[3], bhi)

\* SequenceMatcher.ratio() as the fraction <<numerator, denominator>>
ratio(a, b) ==
  IF Len(a) + Len(b) = 0 THEN <<1, 1>>
  ELSE <<2 * Matches(a, b, 1, Len(a), 1, Len(b)), Len(a) + Len(b)>>

\* (mutant) cutoff=0: every candidate passes
AboveCutoff_none(r) == r[2] >= 0

\* ratio >= cutoff, for the cutoff 0.01 of the call
AboveCutoff(r) == 100 * r[1] >= r[2]

FracLess(r, q) == r[1] * q[2] < q[1] * r[2]

\* (mutant) among equal scores the smaller string ranks higher
ScoredLess_least_name(a, b) ==
  \/ FracLess(a[1], b[1])
  \/ a[1][1] * b[1][2] = b[1][1] * a[1][2] /\ StrLess(b[2], a[2])

\* the order of the (score, x) tuples heapq.nlargest compares
ScoredLess(a, b) ==
  \/ FracLess(a[1], b[1])
  \/ a[1][1] * b[1][2] = b[1][1] * a[1][2] /\ StrLess(a[2], b[2])

\* get_close_matches(word, possibilities, n=1, cutoff=0.01)
get_close_matches(word, possibilities) ==
  LET result == {<<ratio(possibilities[n], word), possibilities[n]>> :
                   n \in {m \in 1..Len(possibilities) :
                            AboveCutoff(ratio(possibilities[m], word))}}
  IN IF result = {} THEN <<>>
     ELSE <<(CHOOSE p \in result :
               \A q \in result : q = p \/ ScoredLess(q, p))[2]>>

\* a dict built by assigning pairs in order: the keys in first-assignment
\* order, and the value last assigned to a key
RECURSIVE DictKeys(_)
DictKeys(pairs) ==
  IF pairs = <<>> THEN <<>>
  ELSE LET front == DictKeys(SubSeq(pairs, 1, Len(pairs) - 1))
           key == pairs[Len(pairs)][1]
       IN IF InSeq(key, front) THEN front ELSE Append(front, key)

DictGet(pairs, key) ==
  pairs[CHOOSE n \in 1..Len(pairs) :
          /\ pairs[n][1] = key
          /\ \A m \in (n + 1)..Len(pairs) : pairs[m][1] # key][2]

\* episode_df[~episode_df['name'].isnull()]['name'].unique()
UniqueNames(df) ==
  LET first == {n \in 1..Len(df) :
                  /\ ~isna(df[n].name)
                  /\ \A m \in 1..(n - 1) : df[m].name # df[n].name}
  IN [k \in 1..Cardinality(first) |->
        df[CHOOSE n \in first :
             Cardinality({m \in first : m <= n}) = k].name[2]]

\* whether get_close_matches(...)[0] raises IndexError for some first name
NamesResolve(first_names, full_names_and_ids) ==
  \A n \in 1..Len(first_names) :
    get_close_matches(first_names[n], DictKeys(full_names_and_ids)) # <<>>

\* (mutant) the id of a first name is taken by its position in first_names
name_to_full_name_map_id_by_position(first_names, full_names_and_ids) ==
  LET names == {first_names[n] : n \in 1..Len(first_names)}
      full_name == [f \in names |->
                      get_close_matches(f, DictKeys(full_names_and_ids))[1]]
      position(f) == CHOOSE n \in 1..Len(first_names) : first_names[n] = f
  IN <<full_name,
       [f \in names |->
          full_names_and_ids[((position(f) - 1) % Len(full_names_and_ids)) + 1][2]]>>

\* the pair (name_map, id_map), as functions of the first names
name_to_full_name_map(first_names, full_names_and_ids) ==
  LET names == {first_names[n] : n \in 1..Len(first_names)}
      full_name == [f \in names |->
                      get_close_matches(f, DictKeys(full_names_and_ids))[1]]
  IN <<full_name,
       [f \in names |-> DictGet(full_names_and_ids, full_name[f])]>>

\* Series.replace(mapping): a value that is a key of the mapping is replaced
replace(v, mapping) ==
  IF v[1] = "str" /\ v[2] \in DOMAIN mapping THEN PyStr(mapping[v[2]]) ELSE v


-----------------------------------------------------------------------------
(* scrape_episode: column order, column types, sort_values *)

col_order ==
  {"show_num", "game_id", "date", "clue_id", "clue_location", "round_num",
   "value", "order_num", "category", "answer", "correct_response", "name",
   "player_id", "was_correct", "was_revealed", "was_triple_stumper",
   "was_daily_double", "wager"}

\* episode_df[col_order]
SelectColumns(row) == [c \in col_order |-> row[c]]

\* Series.astype('float') of an object column
AsFloat(v) ==
  IF isna(v) THEN NaN
  ELSE IF v[1] = "str" THEN PyFloat(StrInt(v[2]))
  ELSE IF v[1] = "bool" THEN PyFloat(IF v[2] THEN 1 ELSE 0)
  ELSE PyFloat(v[2])

\* Series.astype('bool') of an object column: Python's truth value of each
\* element (None is false, NaN is a non-zero float)
AsBool(v) ==
  IF v[1] = "None" THEN PyBool(FALSE)
  ELSE IF v[1] = "nan" THEN PyBool(TRUE)
  ELSE IF v[1] = "bool" THEN v
  ELSE IF v[1] \in {"int", "float"} THEN PyBool(v[2] # 0)
  ELSE PyBool(v[2] # <<>>)

\* Series.astype('str') of an object column: str() of each element
AsStr(v) ==
  IF v[1] = "None" THEN PyStr(<<"N", "o", "n", "e">>)
  ELSE IF v[1] = "nan" THEN PyStr(<<"n", "a", "n">>)
  ELSE v

col_order_and_dtypes ==
  [game_id |-> "float", show_num |-> "float", date |-> "datetime64[ns]",
   clue_id |-> "float", clue_location |-> "str", round_num |-> "float",
   value |-> "float", order_num |-> "float", category |-> "str",
   answer |-> "str", correct_response |-> "str", name |-> "str",
   player_id |-> "float", was_correct |-> "bool", was_revealed |-> "bool",
   was_triple_stumper |-> "bool", was_daily_double |-> "bool",
   wager |-> "float"]

\* episode_df[col_order_and_dtypes.keys()].astype(col_order_and_dtypes)
astype(row) ==
  [c \in DOMAIN col_order_and_dtypes |->
     IF col_order_and_dtypes[c] = "float" THEN AsFloat(row[c])
     ELSE IF col_order_and_dtypes[c] = "bool" THEN AsBool(row[c])
     ELSE IF col_order_and_dtypes[c] = "str" THEN AsStr(row[c])
     ELSE row[c]]

\* the order sort_values gives the values of a key column: numbers before
\* strings, numbers by value, strings as Python compares strings
ValueLess(u, v) ==
  IF u[1] = "str" /\ v[1] = "str" THEN StrLess(u[2], v[2])
  ELSE IF u[1] = "str" THEN FALSE
  ELSE IF v[1] = "str" THEN TRUE
  ELSE u[2] < v[2]

\* one key column: the missing values last (na_position='last')
KeyLess(u, v) ==
  IF isna(u) THEN FALSE
  ELSE IF isna(v) THEN TRUE
  ELSE ValueLess(u, v)

\* by=['round_num', 'order_num']
RowLess(x, y) ==
  \/ KeyLess(x.round_num, y.round_num)
  \/ /\ ~KeyLess(y.round_num, x.round_num)
     /\ KeyLess(x.order_num, y.order_num)

\* the place each row of d takes in the stable sort
SortRank(d) ==
  [i \in 1..Len(d) |->
     Cardinality({j \in 1..Len(d) :
                    \/ RowLess(d[j], d[i])
                    \/ ~RowLess(d[i], d[j]) /\ j < i}) + 1]

\* sort_values(by=['round_num', 'order_num']): a stable sort
sort_values(df) ==
  LET place(d, r) == [k \in 1..Len(d) |->
                        d[CHOOSE i \in 1..Len(d) : r[i] = k]]
  IN CHOOSE out \in UNION {{place(d, r) : r \in {SortRank(d)}} : d \in {df}} :
       TRUE

-----------------------------------------------------------------------------
(* The games scraped *)

Dates ==
  {<<"December", 31, 2000>>, <<"November", 25, 2001>>,
   <<"November", 26, 2001>>, <<"December", 1, 2001>>,
   <<"January", 30, 2002>>, <<"January", 1, 2010>>}

DefaultGame ==
  [sr |-> 1, sp |-> 7, kind |-> PlainKind, nrev |-> NumClues,
   date |-> <<"January", 1, 2010>>, fj |-> <<TRUE, FALSE, FALSE>>,
   registry |-> FullRegistry, defect |-> "none"]

\* every response fragment, on one cell of either round
KindGames ==
  {[DefaultGame EXCEPT !.sr = r, !.kind = k] : r \in 1..2, k \in Kinds}

\* a missed daily double or an unrevealed clue at every position of either
\* round, on every date
PlaceGames ==
  {[DefaultGame EXCEPT !.sr = r, !.sp = i, !.kind = k, !.date = d] :
     r \in 1..2, i \in 0..(NumClues - 1),
     k \in {BlankKind, MissedDDKind}, d \in Dates}

\* rounds cut short: the clues picked after the first nrev stay unrevealed
ShortGames ==
  {[DefaultGame EXCEPT !.nrev = n, !.kind = k] :
     n \in {11, 25, NumClues - 1}, k \in {PlainKind, MissedDDKind}}

\* every final-round table, and registries that do or do not hold the names
FinalGames ==
  {[DefaultGame EXCEPT !.fj = f, !.registry = reg] :
     f \in SeqsUpTo(BOOLEAN, MaxFinalists),
     reg \in {FullRegistry, <<>>, <<FullRegistry[3]>>}}

\* pages the parsers cannot read: no #game_title, a round short of a clue
\* cell, no .final_round, a final response table short of a cell
Defects == {"title", "round", "final", "final_row"}
BrokenGames == {[DefaultGame EXCEPT !.defect = d] : d \in Defects}

Games ==
  KindGames \cup PlaceGames \cup ShortGames \cup FinalGames \cup BrokenGames

episode_num == 4000

\* the largest number of game ids in the range of a run of __main__
MaxBatch == 2

\* the pages served in a run over several game ids: a page that parses and
\* resolves, one whose registry resolves every name to the same contestant,
\* one whose registry is empty, and one with a round short of a clue cell
BatchGames ==
  {DefaultGame,
   [DefaultGame EXCEPT !.registry = <<FullRegistry[3]>>],
   [DefaultGame EXCEPT !.registry = <<>>],
   [DefaultGame EXCEPT !.defect = "round"]}

\* the pages the archive may serve in this run
Archive == IF stop = 1 THEN Games ELSE BatchGames

-----------------------------------------------------------------------------
(* scrape_episode, step by step, and the loop of __main__ around it *)

Raise(exception) ==
  /\ pc' = "raised"
  /\ outcome' = exception

Init ==
  /\ pc = "idle"
  /\ entry = "none"
  /\ doc = <<>>
  /\ meta = <<>>
  /\ rounds_df = <<>>
  /\ episode_df = <<>>
  /\ table = <<>>
  /\ outcome = "running"
  /\ name_map = <<>>
  /\ id_map = <<>>
  /\ loop_i = 0
  /\ stop = 0
  /\ persisted = {}

\* a run: __main__ of j_archive_scraper.py loops over n game ids, calling its
\* scrape_episode for each; the scrape_episode of episode_scraper.py is
\* called for one game
Main(e, n) ==
  /\ pc = "idle"
  /\ e = "modular" => n = 1
  /\ entry' = e
  /\ stop' = n
  /\ pc' = "get_page"
  /\ UNCHANGED <<doc, meta, rounds_df, episode_df, table, outcome, loop_i,
                 persisted>>
  /\ UNCHANGED name_vars

\* the game id scrape_episode is called with: the loop variable of __main__
CurrentEpisode == episode_num + loop_i

\* scraper.get_page and BeautifulSoup(page_html)
GetPage(g) ==
  /\ pc = "get_page"
  /\ g \in Archive
  /\ doc' = Page(g)
  /\ pc' = "metadata"
  /\ UNCHANGED <<entry, meta, rounds_df, episode_df, table, outcome>>
  /\ UNCHANGED name_vars
  /\ UNCHANGED run_vars

\* meta = parse_metadata(soup): select_one('#game_title').text raises
\* AttributeError when the page has no such element
ParseMetadata ==
  /\ pc = "metadata"
  /\ IF "#game_title" \in doc.missing
     THEN Raise("AttributeError") /\ UNCHANGED meta
     ELSE /\ meta' = parse_metadata(doc)
          /\ pc' = IF entry = "modular" THEN "game_notes" ELSE "rounds"
          /\ UNCHANGED outcome
  /\ UNCHANGED <<entry, doc, rounds_df, episode_df, table>>
  /\ UNCHANGED name_vars
  /\ UNCHANGED run_vars

\* episode_scraper.py only: game_notes = meta['game_notes']
ReadGameNotes ==
  /\ pc = "game_notes"
  /\ IF "game_notes" \in DOMAIN meta
     THEN pc' = "rounds" /\ UNCHANGED outcome
     ELSE Raise("KeyError")
  /\ UNCHANGED <<entry, doc, meta, rounds_df, episode_df, table>>
  /\ UNCHANGED name_vars
  /\ UNCHANGED run_vars

\* rounds_df = parse_rounds(soup, episode_date)
ParseRounds ==
  /\ pc = "rounds"
  /\ IF \A r \in 1..Len(doc.rounds) : BoardShapeOk(doc.rounds[r])
     THEN /\ rounds_df' = parse_rounds(doc, meta.date)
          /\ pc' = "merge"
          /\ UNCHANGED outcome
     ELSE Raise("ValueError") /\ UNCHANGED rounds_df
  /\ UNCHANGED <<entry, doc, meta, episode_df, table>>
  /\ UNCHANGED name_vars
  /\ UNCHANGED run_vars

\* the game-level columns set on the merged frame
GameColumns ==
  [game_id |-> PyInt(CurrentEpisode),
   date |-> <<"date", meta.date>>,
   show_num |-> meta.show_num]

\* json_normalize of the rounds, parse_fj, pd.concat, the game-level columns;
\* parse_fj raises AttributeError on a page with no .final_round
MergeFinal ==
  /\ pc = "merge"
  /\ IF ".final_round" \in doc.missing
     THEN Raise("AttributeError") /\ UNCHANGED episode_df
     ELSE IF FinalShapeOk(doc.final)
     THEN /\ episode_df' =
               LET merged == json_normalize(rounds_df) \o parse_fj(doc)
               IN [n \in 1..Len(merged) |-> GameColumns @@ merged[n]]
          /\ pc' = "names"
          /\ UNCHANGED outcome
     ELSE Raise("ValueError") /\ UNCHANGED episode_df
  /\ UNCHANGED <<entry, doc, meta, rounds_df, table>>
  /\ UNCHANGED name_vars
  /\ UNCHANGED run_vars

\* the first names the loop of name_to_full_name_map has mapped when
\* get_close_matches(...)[0] raises IndexError: those before the first name
\* with no match
MappedBeforeError(first_names, full_names_and_ids) ==
  LET bad == {n \in 1..Len(first_names) :
                get_close_matches(first_names[n],
                                  DictKeys(full_names_and_ids)) = <<>>}
  IN IF bad = {} THEN first_names
     ELSE SubSeq(first_names, 1,
                 (CHOOSE n \in bad : \A m \in bad : n <= m) - 1)

\* the frame after the two replace calls
Replaced(df, maps) ==
  [n \in 1..Len(df) |->
     [player_id |-> replace(df[n].name, maps[2])]
     @@ [df[n] EXCEPT !.name = replace(df[n].name, maps[1])]]

\* (mutant) the dicts are kept from one call to the next and serve as a
\* cache: a name that is a key already is not resolved again
MapNames_shared_cache ==
  /\ pc = "names"
  /\ \E first_names \in {UniqueNames(episode_df)} :
       LET fresh == [n \in {m \in 1..Len(first_names) :
                              first_names[m] \notin DOMAIN name_map} |->
                       first_names[n]]
           new_names == [k \in 1..Cardinality(DOMAIN fresh) |->
                           fresh[CHOOSE n \in DOMAIN fresh :
                                   Cardinality({m \in DOMAIN fresh : m <= n}) = k]]
       IN IF NamesResolve(new_names, meta.contestants)
          THEN \E maps \in {name_to_full_name_map(new_names, meta.contestants)} :
                 /\ name_map' = maps[1] @@ name_map
                 /\ id_map' = maps[2] @@ id_map
                 /\ episode_df' = Replaced(episode_df, <<name_map', id_map'>>)
                 /\ pc' = "order"
                 /\ UNCHANGED outcome
          ELSE /\ Raise("IndexError")
               /\ UNCHANGED episode_df
               /\ UNCHANGED name_vars
  /\ UNCHANGED <<entry, doc, meta, rounds_df, table>>
  /\ UNCHANGED run_vars

\* (mutant) the error of the name resolution is caught and the rows merged
\* so far are handed out with their names as observed
MapNames_keeps_rows ==
  /\ pc = "names"
  /\ \E first_names \in {UniqueNames(episode_df)} :
       IF NamesResolve(first_names, meta.contestants)
       THEN \E maps \in {name_to_full_name_map(first_names, meta.contestants)} :
              /\ name_map' = maps[1]
              /\ id_map' = maps[2]
              /\ episode_df' = Replaced(episode_df, maps)
              /\ pc' = "order"
              /\ UNCHANGED <<outcome, table>>
       ELSE /\ Raise("IndexError")
            /\ table' = episode_df
            /\ UNCHANGED episode_df
            /\ UNCHANGED name_vars
  /\ UNCHANGED <<entry, doc, meta, rounds_df>>
  /\ UNCHANGED run_vars

\* name_to_full_name_map, which makes its two dicts anew, and the two
\* replace calls
MapNames ==
  /\ pc = "names"
  /\ \E first_names \in {UniqueNames(episode_df)} :
       IF NamesResolve(first_names, meta.contestants)
       THEN \E maps \in {name_to_full_name_map(first_names, meta.contestants)} :
              /\ name_map' = maps[1]
              /\ id_map' = maps[2]
              /\ episode_df' = Replaced(episode_df, maps)
              /\ pc' = "order"
              /\ UNCHANGED outcome
       ELSE \E maps \in {name_to_full_name_map(
                           MappedBeforeError(first_names, meta.contestants),
                           meta.contestants)} :
              /\ name_map' = maps[1]
              /\ id_map' = maps[2]
              /\ Raise("IndexError")
              /\ UNCHANGED episode_df
  /\ UNCHANGED <<entry, doc, meta, rounds_df, table>>
  /\ UNCHANGED run_vars

\* the merged frame of a page, before the names are resolved
MergedFrame(page) ==
  json_normalize(parse_rounds(page, parse_metadata(page).date))
  \o parse_fj(page)

\* the name resolution of another extraction, of the page of game g, going
\* on in the same process while this one is about to resolve its names
ConcurrentMapNames(g) ==
  /\ pc = "names"
  /\ stop > 1
  /\ g \in BatchGames
  /\ g.defect = "none"
  /\ \E first_names \in {UniqueNames(MergedFrame(Page(g)))} :
       /\ NamesResolve(first_names, g.registry)
       /\ \E maps \in {name_to_full_name_map(first_names, g.registry)} :
            /\ name_map' = maps[1]
            /\ id_map' = maps[2]
  /\ UNCHANGED <<pc, entry, doc, meta, rounds_df, episode_df, table, outcome>>
  /\ UNCHANGED run_vars

\* the column order (and, in episode_scraper.py, the column types), the sort
\* and the return
SortAndReturn ==
  /\ pc = "order"
  /\ table' =
       IF entry = "modular"
       THEN sort_values([n \in 1..Len(episode_df) |-> astype(episode_df[n])])
       ELSE sort_values([n \in 1..Len(episode_df) |->
                           SelectColumns(episode_df[n])])
  /\ pc' = "returned"
  /\ outcome' = "returned"
  /\ UNCHANGED <<entry, doc, meta, rounds_df, episode_df>>
  /\ UNCHANGED name_vars
  /\ UNCHANGED run_vars

\* __main__: episode_df.to_csv(episode_csv), and the next game id of the
\* range, if any; the frames of the call that returned are dropped
ToCsv ==
  /\ pc = "returned"
  /\ entry = "script"
  /\ persisted' = persisted \cup {CurrentEpisode}
  /\ loop_i' = loop_i + 1
  /\ IF loop_i + 1 < stop
     THEN /\ pc' = "get_page"
          /\ outcome' = "running"
          /\ doc' = <<>>
          /\ meta' = <<>>
          /\ rounds_df' = <<>>
          /\ episode_df' = <<>>
          /\ table' = <<>>
     ELSE /\ pc' = "done"
          /\ UNCHANGED <<doc, meta, rounds_df, episode_df, table, outcome>>
  /\ UNCHANGED <<entry, stop>>
  /\ UNCHANGED name_vars

Next ==
  \/ \E e \in {"modular", "script"}, n \in 1..MaxBatch : Main(e, n)
  \/ \E g \in Games : GetPage(g)
  \/ ParseMetadata
  \/ ReadGameNotes
  \/ ParseRounds
  \/ MergeFinal
  \/ MapNames
  \/ \E g \in BatchGames : ConcurrentMapNames(g)
  \/ SortAndReturn
  \/ ToCsv

Spec == Init /\ [][Next]_vars

-----------------------------------------------------------------------------
(* The name resolution on its own: scrape_episode from the merged frame on, *)
(* for frames of observed names and registries chosen to rank closely       *)

JeromeWilson ==
  <<"J", "e", "r", "o", "m", "e", " ", "W", "i", "l", "s", "o", "n">>
JennyAmes == <<"J", "e", "n", "n", "y", " ", "A", "m", "e", "s">>
Jerome == <<"J", "e", "r", "o", "m", "e">>
Joe == <<"J", "o", "e">>
Jon == <<"J", "o", "n">>
Jo == <<"J", "o">>
Stu == <<"S", "t", "u">>
amy == <<"a", "m", "y">>
AMY == <<"A", "M", "Y">>

\* the largest number of rows of a frame of observed names
MaxObserved == 2

ObservedNames ==
  {None} \cup {PyStr(w) : w \in {Amy, Bob, Cy, amy, AMY, Jerome, Jo, Stu}}

JeromeRegistry == <<<<JeromeWilson, <<"1">>>>, <<JennyAmes, <<"2">>>>>>

Registries ==
  {FullRegistry, <<>>, JeromeRegistry,
   <<JeromeRegistry[2], JeromeRegistry[1]>>,
   <<<<Joe, <<"4">>>>, <<Jon, <<"5">>>>>>,
   <<<<Jon, <<"5">>>>, <<Joe, <<"4">>>>>>}

ResolverInit ==
  /\ pc = "names"
  /\ entry = "script"
  /\ doc = <<>>
  /\ meta \in {[contestants |-> reg] : reg \in Registries}
  /\ rounds_df = <<>>
  /\ episode_df \in
       {[n \in 1..Len(names) |-> [name |-> names[n]]] :
          names \in SeqsUpTo(ObservedNames, MaxObserved) \ {<<>>}}
  /\ table = <<>>
  /\ outcome = "running"
  /\ name_map = <<>>
  /\ id_map = <<>>
  /\ loop_i = 0
  /\ stop = 1
  /\ persisted = {}

ResolverNext == MapNames

ResolverSpec == ResolverInit /\ [][ResolverNext]_vars

\* the full names of the registry, in declaration order
FullNames == DictKeys(meta.contestants)

\* the positions of the registry names no other name is more similar to w than
TopRanked(w) ==
  {k \in 1..Len(FullNames) :
     \A j \in 1..Len(FullNames) :
       ~FracLess(ratio(FullNames[k], w), ratio(FullNames[j], w))}

\* the names were resolved: the dicts are those of the call that returned
Resolved == pc \in {"order", "returned", "done"}

-----------------------------------------------------------------------------
(* C11..C13 *)

\* C11 as claimed: an observed name equally similar to several registry
\* names resolves to the one declared first in the registry. Violated.
C11_Original ==
  Resolved =>
    \A w \in DOMAIN name_map :
      \E k \in TopRanked(w) :
        /\ name_map[w] = FullNames[k]
        /\ \A j \in TopRanked(w) : k <= j

\* C11, amended: an observed name equally similar to several registry names
\* resolves to the one of them that is greatest in string (code point)
\* order, wherever the registry declares it.
C11_TieGreatestName ==
  Resolved =>
    \A w \in DOMAIN name_map :
      \E k \in TopRanked(w) :
        /\ name_map[w] = FullNames[k]
        /\ \A j \in TopRanked(w) :
             FullNames[j] = FullNames[k] \/ StrLess(FullNames[j], FullNames[k])

\* C11's case: 'Jo' is as similar to 'Joe' as to 'Jon'; the registry declares
\* 'Joe' first, and 'Jo' is resolved to 'Jon'
C11_Witness ==
  /\ pc = "order"
  /\ FullNames = <<Joe, Jon>>
  /\ Jo \in DOMAIN name_map
  /\ Cardinality(TopRanked(Jo)) = 2
  /\ name_map[Jo] = Jon



-----------------------------------------------------------------------------
(* What the claims are stated over *)

\* the round (1 or 2) and the 0-based traversal position of row n of rounds_df
RoundOf(n) == ((n - 1) \div NumClues) + 1
PosOf(n) == (n - 1) % NumClues

NumCorrect(responders) ==
  Cardinality({k \in 1..Len(responders) : IsTrue(responders[k].was_correct)})

\* the rows of the final-round clue in the merged frame
FinalAttempts == {n \in 1..Len(episode_df) : episode_df[n].round_num = PyInt(3)}
FinalCorrect == {n \in FinalAttempts : IsTrue(episode_df[n].was_correct)}

\* the stake multiplier of a date, from its calendar number
DateNumber(dt) == dt[1] * 10000 + dt[2] * 100 + dt[3]
Multiplier(dt) == IF DateNumber(dt) >= 20011126 THEN 200 ELSE 100

\* the board row of a coordinate: its last character
RowIndex(clue_location) == DigitVal(clue_location[2][Len(clue_location[2])])

\* a table value as a number
Number(v) == IF v[1] = "str" THEN StrInt(v[2]) ELSE v[2]

\* the run ended, on a page whose rounds are whole, and not by an error the
\* pipeline is specified to raise on a page it cannot parse or a name it
\* cannot resolve
Ended ==
  /\ pc \in {"returned", "raised"}
  /\ outcome \notin {"IndexError", "ValueError", "AttributeError"}
  /\ \A r \in 1..Len(doc.rounds) : BoardShapeOk(doc.rounds[r])

\* the number of attempts the response fragment of a cell describes
AttemptsOf(cell) ==
  IF cell.blank THEN 0
  ELSE (IF cell.right = <<>> THEN 0 ELSE 1)
       + Cardinality({k \in 1..Len(cell.wrong) : cell.wrong[k] # TripleStumper})

Max(a, b) == IF a >= b THEN a ELSE b

RECURSIVE SumTo(_, _)
SumTo(f, n) == IF n = 0 THEN 0 ELSE f[n] + SumTo(f, n - 1)

\* the rows the claim expects of a page
ExpectedRows(page) ==
  SumTo([r \in 1..Len(page.rounds) |->
           SumTo([n \in 1..NumRows |->
                    SumTo([c \in 1..NumCategories |->
                             Max(1, AttemptsOf(page.rounds[r].clues[
                                      (n - 1) * NumCategories + c]))],
                          NumCategories)],
                 NumRows)],
        Len(page.rounds))
  + (Len(page.final.trs) \div 2)


-----------------------------------------------------------------------------
(* C1..C5 *)

\* C1: for every clue, regular (revealed or not) or final, was_triple_stumper
\* is true if and only if no attempt of the clue has was_correct = true.
\* parse_response sets the flag from the 'Triple Stumper' marker alone, and
\* parse_clues leaves it NaN for an unrevealed clue: violated.
C1_TripleStumperIffNoCorrect ==
  /\ \A n \in 1..Len(rounds_df) :
       IsTrue(rounds_df[n].was_triple_stumper)
         <=> NumCorrect(rounds_df[n].responders) = 0
  /\ \A n \in FinalAttempts :
       IsTrue(episode_df[n].was_triple_stumper) <=> FinalCorrect = {}

\* C2 as claimed: every clue, the final-round clue included, has at least one
\* attempt and at most one correct attempt. Violated by a final round that
\* two contestants answered correctly.
C2_Original ==
  /\ \A n \in 1..Len(rounds_df) :
       /\ Len(rounds_df[n].responders) >= 1
       /\ NumCorrect(rounds_df[n].responders) <= 1
  /\ episode_df # <<>> =>
       /\ Cardinality(FinalAttempts) >= 1
       /\ Cardinality(FinalCorrect) <= 1

\* C2, amended: every regular-round clue, revealed or not, has at least one
\* attempt and at most one correct attempt; the final-round clue has one
\* attempt per contestant of its response table (two <tr> each), and an
\* attempt is correct exactly when the contestant's name is in the
\* correct-responder set, so any number of them may be correct.
C2_AttemptsPerClue ==
  /\ \A n \in 1..Len(rounds_df) :
       /\ Len(rounds_df[n].responders) >= 1
       /\ NumCorrect(rounds_df[n].responders) <= 1
  /\ pc = "names" =>
       /\ Cardinality(FinalAttempts) = Len(doc.final.trs) \div 2
       /\ \A n \in FinalAttempts :
            IsTrue(episode_df[n].was_correct)
              <=> \E t \in 1..Len(doc.final.trs) :
                    /\ doc.final.trs[t].cls = "right"
                    /\ PyStr(doc.final.trs[t].tds[1]) = episode_df[n].name

\* C2's case: a merged frame whose final-round clue has two or more correct
\* attempts, beside the 60 regular clues
C2_Witness ==
  /\ pc = "names"
  /\ Len(rounds_df) = 2 * NumClues
  /\ Cardinality(FinalCorrect) >= 2

\* C3 as claimed: an unrevealed clue keeps value = null, in parse_rounds'
\* frame and in its emitted row. Violated: fillna fills every missing value.
C3_Original ==
  /\ \A n \in 1..Len(rounds_df) :
       rounds_df[n].was_revealed = PyBool(FALSE) => isna(rounds_df[n].value)
  /\ \A n \in 1..Len(table) :
       table[n].was_revealed = PyBool(FALSE) => isna(table[n].value)

\* C3, amended: value inference fills every missing value, so an unrevealed
\* clue does not keep value = null: like a daily double it gets
\* round_num * row_index(coordinate) * multiplier(date), in parse_rounds'
\* frame and in its emitted row.
C3_UnrevealedValueInferred ==
  /\ \A n \in 1..Len(rounds_df) :
       rounds_df[n].was_revealed = PyBool(FALSE) =>
         rounds_df[n].value
           = PyInt(RoundOf(n) * RowIndex(rounds_df[n].clue_location)
                   * Multiplier(meta.date))
  /\ \A n \in 1..Len(table) :
       table[n].was_revealed = PyBool(FALSE) =>
         table[n].value
           = PyInt(table[n].round_num[2] * RowIndex(table[n].clue_location)
                   * Multiplier(meta.date))

\* C3's case: the returned table holds the row of an unrevealed clue of
\* round 1, row 3, of a game of 2010, with the value 600
C3_Witness ==
  /\ pc = "returned"
  /\ \E n \in 1..Len(table) :
       /\ table[n].was_revealed = PyBool(FALSE)
       /\ table[n].round_num = PyInt(1)
       /\ RowIndex(table[n].clue_location) = 3
       /\ meta.date = <<2010, 1, 1>>
       /\ table[n].value = PyInt(600)

\* C4: an unrevealed clue has was_triple_stumper = true, in the clue slot
\* parse_clues produces and in the row scrape_episode emits. Violated:
\* parse_clues leaves the field NaN.
C4_UnrevealedTripleStumper ==
  /\ \A n \in 1..Len(rounds_df) :
       rounds_df[n].was_revealed = PyBool(FALSE) =>
         rounds_df[n].was_triple_stumper = PyBool(TRUE)
  /\ \A n \in 1..Len(table) :
       table[n].was_revealed = PyBool(FALSE) =>
         table[n].was_triple_stumper = PyBool(TRUE)

\* the coordinate the board position i of round r is given
CoordinateOf(r, i) ==
  PyStr((IF r = 2 THEN <<"D">> ELSE <<>>)
        \o <<"J", "_">> \o IntStr((i % NumCategories) + 1)
        \o <<"_">> \o IntStr((i \div NumCategories) + 1))

\* C5: when scrape_episode has run on a game, every unrevealed clue of the
\* page has exactly one emitted row, and that row has was_revealed = false
\* and name, wager and was_correct null. Violated: the scrape_episode that
\* types the columns raises KeyError and emits no row.
C5_UnrevealedOneRow ==
  Ended =>
    \A r \in 1..Len(doc.rounds) : \A i \in 0..(NumClues - 1) :
      doc.rounds[r].clues[i + 1].blank =>
        /\ Cardinality({n \in 1..Len(table) :
                          table[n].clue_location = CoordinateOf(r, i)}) = 1
        /\ \A n \in 1..Len(table) :
             table[n].clue_location = CoordinateOf(r, i) =>
               /\ table[n].was_revealed = PyBool(FALSE)
               /\ table[n].name = None
               /\ table[n].wager = None
               /\ table[n].was_correct = None


-----------------------------------------------------------------------------
(* C6..C10 *)

\* C6: a daily double of round r whose assigned coordinate has row index k
\* gets the value r * k * 100 before 2001-11-26 and r * k * 200 on and after
\* it, whatever its wager, in parse_rounds' frame and in its emitted row.
C6_DailyDoubleValue ==
  /\ \A n \in 1..Len(rounds_df) :
       rounds_df[n].was_daily_double = PyBool(TRUE) =>
         /\ RowIndex(rounds_df[n].clue_location) \in 1..NumRows
         /\ rounds_df[n].value
              = PyInt(RoundOf(n) * RowIndex(rounds_df[n].clue_location)
                      * Multiplier(meta.date))
  /\ \A n \in 1..Len(table) :
       table[n].was_daily_double = PyBool(TRUE) =>
         table[n].value
           = PyInt(table[n].round_num[2] * RowIndex(table[n].clue_location)
                   * Multiplier(meta.date))

\* C6's case: a game of the boundary date 2001-11-26 is returned with a daily
\* double whose value is r * k * 200 and differs from its wager
C6_Witness ==
  /\ pc = "returned"
  /\ meta.date = <<2001, 11, 26>>
  /\ \E n \in 1..Len(table) :
       /\ table[n].was_daily_double = PyBool(TRUE)
       /\ table[n].value
            = PyInt(table[n].round_num[2] * RowIndex(table[n].clue_location) * 200)
       /\ Number(table[n].wager) # Number(table[n].value)

\* C7 as claimed: the clue at 0-based traversal position i of a round has the
\* category at index floor(i / 5) of the round's category list. Violated.
C7_Original ==
  \A n \in 1..Len(rounds_df) :
    rounds_df[n].category
      = Text(doc.rounds[RoundOf(n)].categories[(PosOf(n) \div 5) + 1])

\* C7, amended: the clue at 0-based traversal position i of a round has the
\* category at index i mod 6 of the round's six declared categories (the
\* list repeated five times: the traversal is row by row, not category by
\* category).
C7_CategoryByColumn ==
  \A n \in 1..Len(rounds_df) :
    rounds_df[n].category
      = Text(doc.rounds[RoundOf(n)].categories[(PosOf(n) % NumCategories) + 1])

\* C7's case: the sixth clue of round 1 (i = 5) has the sixth category, and
\* the seventh (i = 6) the first again
C7_Witness ==
  /\ Len(rounds_df) = 2 * NumClues
  /\ rounds_df[6].category = Text("J6")
  /\ rounds_df[7].category = Text("J1")

\* the coordinates assigned in round r
LocationsOf(r) == {rounds_df[n].clue_location : n \in {m \in 1..Len(rounds_df) : RoundOf(m) = r}}

\* the 30 canonical coordinates of round r
Canonical(r) == {CoordinateOf(r, i) : i \in 0..(NumClues - 1)}

\* C8: in each regular round the coordinates of the 30 clues are the 30
\* canonical coordinates of the round, each used once, whatever cells are
\* unrevealed; no coordinate is shared between round 1 and round 2.
C8_CoordinatesExactlyOnce ==
  rounds_df # <<>> =>
    /\ \A r \in 1..2 :
         /\ LocationsOf(r) = Canonical(r)
         /\ Cardinality(LocationsOf(r)) = NumClues
         /\ Cardinality({n \in 1..Len(rounds_df) : RoundOf(n) = r}) = NumClues
    /\ LocationsOf(1) \cap LocationsOf(2) = {}

\* C8's case: a parsed game with revealed and unrevealed clues in both rounds
C8_Witness ==
  /\ Len(rounds_df) = 2 * NumClues
  /\ \A r \in 1..2 :
       /\ \E n \in 1..Len(rounds_df) :
            RoundOf(n) = r /\ rounds_df[n].was_revealed = PyBool(FALSE)
       /\ \E n \in 1..Len(rounds_df) :
            RoundOf(n) = r /\ rounds_df[n].was_revealed = PyBool(TRUE)

\* C9: when scrape_episode has run on a game, the rows it emitted number the
\* sum over the regular-round clues of max(1, attempts) plus one per
\* final-round contestant. Violated: the scrape_episode of
\* episode_scraper.py raises KeyError and emits no row.
C9_RowCount == Ended => Len(table) = ExpectedRows(doc)

\* (beside C9) the scrape_episode of j_archive_scraper.py, which reads no
\* game notes, returns exactly the expected rows
ScriptRowCount ==
  pc = "returned" => Len(table) = ExpectedRows(doc)

\* C10: the emitted rows are sorted by round_num, then by order_num, both as
\* numbers, and the rows of one clue keep the order of their attempts.
\* Violated: order_num is still the page's text when the table is sorted.
C10_SortedAsNumbers ==
  \A i, j \in 1..Len(table) :
    i < j =>
      /\ Number(table[i].round_num) <= Number(table[j].round_num)
      /\ (/\ table[i].round_num = table[j].round_num
          /\ ~isna(table[i].order_num)
          /\ ~isna(table[j].order_num))
           => Number(table[i].order_num) <= Number(table[j].order_num)
      /\ table[i].clue_location = table[j].clue_location =>
           \E a, b \in 1..Len(episode_df) :
             /\ a < b
             /\ SelectColumns(episode_df[a]) = table[i]
             /\ SelectColumns(episode_df[b]) = table[j]

\* the observed names of the frame: its non-null names, before the replace
ObservedIn(df) == {df[n].name[2] : n \in {m \in 1..Len(df) : ~isna(df[m].name)}}

\* some registry name is at least 0.01 similar to w
HasCandidate(w) ==
  \E k \in 1..Len(FullNames) :
    100 * ratio(FullNames[k], w)[1] >= ratio(FullNames[k], w)[2]

\* C12: an observed name with a registry candidate above the similarity
\* threshold resolves to the top-ranked candidate and to its registry id
\* ('Jerome' to id 1 in the registry Jerome Wilson: 1, Jenny Ames: 2); when an
\* observed name has no candidate above the threshold, as with an empty
\* registry, the resolution raises an error and no row gets a mapping.
C12_ResolveOrFail ==
  /\ Resolved =>
       /\ \A w \in DOMAIN name_map :
            /\ HasCandidate(w)
            /\ \E k \in TopRanked(w) : name_map[w] = FullNames[k]
            /\ \E k \in 1..Len(meta.contestants) :
                 /\ meta.contestants[k][1] = name_map[w]
                 /\ meta.contestants[k][2] = id_map[w]
       /\ (FullNames = <<JeromeWilson, JennyAmes>> /\ Jerome \in DOMAIN name_map)
            => name_map[Jerome] = JeromeWilson /\ id_map[Jerome] = <<"1">>
  /\ pc = "order" =>
       \A n \in 1..Len(episode_df) :
         isna(episode_df[n].name)
         \/ \E w \in DOMAIN name_map :
              /\ episode_df[n].name = PyStr(name_map[w])
              /\ episode_df[n].player_id = PyStr(id_map[w])
  /\ outcome = "IndexError" =>
       /\ pc = "raised"
       /\ table = <<>>
       /\ \E w \in ObservedIn(episode_df) : ~HasCandidate(w)
       /\ \A n \in 1..Len(episode_df) : "player_id" \notin DOMAIN episode_df[n]

\* C12's case: 'Jerome' resolved against the registry Jerome Wilson: 1,
\* Jenny Ames: 2
C12_Witness ==
  /\ pc = "order"
  /\ meta.contestants = JeromeRegistry
  /\ Jerome \in DOMAIN name_map
  /\ id_map[Jerome] = <<"1">>
  /\ \E n \in 1..Len(episode_df) :
       /\ episode_df[n].name = PyStr(JeromeWilson)
       /\ episode_df[n].player_id = PyStr(<<"1">>)

\* the lower-case letter of an upper-case letter of the names
LowerOf ==
  [A |-> "a", B |-> "b", C |-> "c", D |-> "d", J |-> "j", L |-> "l",
   M |-> "m", R |-> "r", S |-> "s", W |-> "w", Y |-> "y"]

\* str.lower()
Lower(w) ==
  [n \in 1..Len(w) |-> IF w[n] \in DOMAIN LowerOf THEN LowerOf[w[n]] ELSE w[n]]

\* C13: two observed names that differ only in letter case resolve to the
\* same registry name and the same id, against any registry. Violated:
\* difflib compares the characters exactly, so 'amy' is as similar to
\* 'Bob Ray' as to 'Amy Lee' and resolves to 'Bob Ray', while 'Amy' resolves
\* to 'Amy Lee'.
C13_CaseInsensitive ==
  Resolved =>
    \A w, v \in DOMAIN name_map :
      Lower(w) = Lower(v) => name_map[w] = name_map[v] /\ id_map[w] = id_map[v]

-----------------------------------------------------------------------------
(* C14..C16 *)

\* the rows of the table for the clue at position i of round r
RowsAt(r, i) == {n \in 1..Len(table) : table[n].clue_location = CoordinateOf(r, i)}

\* C14: scrape_episode hands out either no row or the complete row set of
\* the game. When it raised, at whatever stage (the metadata, a round, the
\* final round, the name resolution), no table exists and no file is
\* written for the game; a table that exists has the rows of every clue of
\* both rounds and of every final-round contestant.
C14_AllOrNothing ==
  /\ pc = "raised" =>
       /\ table = <<>>
       /\ CurrentEpisode \notin persisted
  /\ table # <<>> =>
       /\ pc \in {"returned", "done"}
       /\ Len(table) = ExpectedRows(doc)
       /\ \A r \in 1..Len(doc.rounds) : \A i \in 0..(NumClues - 1) :
            Cardinality(RowsAt(r, i))
              = Max(1, AttemptsOf(doc.rounds[r].clues[i + 1]))
       /\ Cardinality({n \in 1..Len(table) : Number(table[n].round_num) = 3})
            = Len(doc.final.trs) \div 2
  /\ pc \in {"returned", "done"} => table # <<>>

\* C14's case: the name resolution, the last stage that can fail, raised
\* after the rows of the game were merged, and no row is handed out
C14_Witness ==
  /\ pc = "raised"
  /\ outcome = "IndexError"
  /\ Len(episode_df) >= 2 * NumClues
  /\ table = <<>>

ExtractedAlone(page, id) ==
  CHOOSE out \in
    UNION {UNION {{sort_values([n \in 1..Len(frame) |->
                                  SelectColumns(Replaced(frame, maps)[n])]) :
                     maps \in {name_to_full_name_map(UniqueNames(frame),
                                                     m.contestants)}} :
                    frame \in {[n \in 1..Len(MergedFrame(page)) |->
                                  [game_id |-> PyInt(id),
                                   date |-> <<"date", m.date>>,
                                   show_num |-> m.show_num]
                                  @@ MergedFrame(page)[n]]}} :
             m \in {parse_metadata(page)}} : TRUE

\* C16: the extraction of a game shares no state with the extraction of
\* another. In a run over several games, whatever games were extracted
\* before and whatever name resolution of another game went on meanwhile,
\* the dicts of the name resolution hold the observed names of this game
\* alone, and the rows returned are those of the page extracted on its own.
C16_NoSharedState ==
  /\ (pc = "order" /\ stop > 1) =>
       /\ DOMAIN name_map = ObservedIn(MergedFrame(doc))
       /\ DOMAIN id_map = DOMAIN name_map
       /\ \A w \in DOMAIN name_map :
            \E k \in 1..Len(meta.contestants) :
              /\ meta.contestants[k][1] = name_map[w]
              /\ meta.contestants[k][2] = id_map[w]
  /\ (pc = "returned" /\ stop > 1) =>
       table = ExtractedAlone(doc, CurrentEpisode)

\* C16's case: the second game of a run is returned, its names resolved in
\* its own registry of one contestant, after the first game was extracted
\* and written
C16_Witness ==
  /\ pc = "returned"
  /\ loop_i = 1
  /\ persisted = {episode_num}
  /\ meta.contestants = <<FullRegistry[3]>>
  /\ \A n \in 1..Len(table) :
       isna(table[n].name)
       \/ (table[n].name = PyStr(CyDole) /\ table[n].player_id = PyStr(<<"3">>))
  /\ \E n \in 1..Len(table) : ~isna(table[n].name)

-----------------------------------------------------------------------------
(* C17..C20 *)

\* the rows of the table for the final-round clue
FinalRowsOfTable == {n \in 1..Len(table) : Number(table[n].round_num) = 3}

\* no contestant of the final round's response table is tagged right
NoneCorrect(final) == \A t \in 1..Len(final.trs) : final.trs[t].cls # "right"

\* C17: every row of the final-round clue, in the merged frame and in the
\* table returned, has the same was_triple_stumper, and it is true exactly
\* when no contestant is in the correct-responder set.
C17_FinalTripleStumper ==
  /\ \A n \in FinalAttempts :
       episode_df[n].was_triple_stumper = PyBool(NoneCorrect(doc.final))
  /\ \A n \in FinalRowsOfTable :
       table[n].was_triple_stumper = PyBool(NoneCorrect(doc.final))

\* C17's case: a table is returned with the rows of two or more final-round
\* contestants, none of them correct, each with was_triple_stumper = true
C17_Witness ==
  /\ pc = "returned"
  /\ Cardinality(FinalRowsOfTable) >= 2
  /\ \A n \in FinalRowsOfTable :
       /\ table[n].was_correct = PyBool(FALSE)
       /\ table[n].was_triple_stumper = PyBool(TRUE)

\* the fields C18 fixes for a final-round row
FinalRowOk(row) ==
  /\ row.clue_location = PyStr(<<"F", "J">>)
  /\ row.value = None
  /\ row.was_daily_double = PyBool(FALSE)
  /\ row.was_revealed = PyBool(TRUE)
  /\ ~isna(row.wager)

NotNullable ==
  {"show_num", "game_id", "date", "clue_location", "round_num", "order_num",
   "category", "answer", "correct_response", "was_revealed",
   "was_triple_stumper", "was_daily_double"}

\* what a missing value becomes when its column is typed as a string
Placeholders == {PyStr(<<"N", "o", "n", "e">>), PyStr(<<"n", "a", "n">>)}

\* C19: in every row returned, the rows of unrevealed clues included, the
\* columns that are not nullable hold a value: not null, and not the
\* placeholder a missing value is turned into. Violated: the row of an
\* unrevealed clue has order_num, answer, correct_response,
\* was_triple_stumper and was_daily_double null.
C19_NotNullableColumns ==
  \A n \in 1..Len(table) : \A c \in NotNullable :
    /\ ~isna(table[n][c])
    /\ table[n][c] \notin Placeholders

\* the names of the attempts of a cell, in the order of its attempts
AttemptNames(cell) ==
  IF cell.blank THEN <<>>
  ELSE (IF cell.right = <<>> THEN <<>> ELSE <<cell.right[1]>>)
       \o SelectSeq(cell.wrong, LAMBDA x : x # TripleStumper)

\* the place of row n among the rows S of its clue
Kth(S, n) == Cardinality({m \in S : m <= n})

\* the row carries the full name the observed name w resolves to, and the
\* registry id of that full name
Carries(row, w) ==
  /\ w \in DOMAIN name_map
  /\ row.name = PyStr(name_map[w])
  /\ row.player_id = PyStr(id_map[w])
  /\ \E k \in 1..Len(meta.contestants) :
       /\ meta.contestants[k][1] = name_map[w]
       /\ meta.contestants[k][2] = id_map[w]
       /\ \A j \in (k + 1)..Len(meta.contestants) :
            meta.contestants[j][1] # name_map[w]

\* C20: in every row returned, name and player_id agree: the row of an
\* attempt carries the full registry name its observed name resolves to and
\* the registry id of that name, the same pair for every row of the same
\* observed name; the row of a clue with no attempt has null for both.
C20_NameAndPlayerId ==
  pc \in {"returned", "done"} =>
    /\ \A r \in 1..Len(doc.rounds) : \A i \in 0..(NumClues - 1) :
         \A n \in RowsAt(r, i) :
           LET names == AttemptNames(doc.rounds[r].clues[i + 1])
           IN IF names = <<>>
              THEN table[n].name = None /\ table[n].player_id = None
              ELSE Carries(table[n], names[Kth(RowsAt(r, i), n)])
    /\ \A n \in FinalRowsOfTable :
         Carries(table[n],
                 doc.final.trs[2 * Kth(FinalRowsOfTable, n) - 1].tds[1])

\* C20's case: the table returned holds the row of an attempt by 'Bob' with
\* the pair Bob Ray, 2, rows of no attempt with null for both, and several
\* rows of 'Amy' with the pair Amy Lee, 1
C20_Witness ==
  /\ pc = "returned"
  /\ \E n \in 1..Len(table) :
       table[n].name = PyStr(BobRay) /\ table[n].player_id = PyStr(<<"2">>)
  /\ \E n \in 1..Len(table) :
       table[n].was_revealed = PyBool(FALSE)
       /\ table[n].name = None /\ table[n].player_id = None
  /\ Cardinality({n \in 1..Len(table) :
                    /\ table[n].name = PyStr(AmyLee)
                    /\ table[n].player_id = PyStr(<<"1">>)}) >= 2

-----------------------------------------------------------------------------
(* C21..C23 *)

\* the cell of the page that row n of rounds_df was parsed from
CellOf(n) == doc.rounds[RoundOf(n)].clues[PosOf(n) + 1]

\* the attempts the claim expects of a revealed cell: the first .right
\* element, then the .wrong elements other than the marker, in markup order
ExpectedAttempts(cell) ==
  (IF cell.right = <<>> THEN <<>>
   ELSE <<[name |-> PyStr(cell.right[1]), was_correct |-> PyBool(TRUE)]>>)
  \o [k \in 1..Len(SelectSeq(cell.wrong, LAMBDA x : x # TripleStumper)) |->
        [name |-> PyStr(SelectSeq(cell.wrong, LAMBDA x : x # TripleStumper)[k]),
         was_correct |-> PyBool(FALSE)]]

HasMarker(cell) == \E k \in 1..Len(cell.wrong) : cell.wrong[k] = TripleStumper

\* C21: for a revealed clue, a .wrong element with the text 'Triple Stumper'
\* is no attempt and sets was_triple_stumper = true; every other .wrong
\* element is one attempt with was_correct = false, in markup order, after
\* the correct attempt if there is one; when no attempt is left, the list is
\* the one no-attempt record (name null, was_correct null) and
\* was_triple_stumper is true.
C21_MarkerIsNoResponder ==
  \A n \in 1..Len(rounds_df) :
    IsTrue(rounds_df[n].was_revealed) =>
      /\ \A k \in 1..Len(rounds_df[n].responders) :
           rounds_df[n].responders[k].name # PyStr(TripleStumper)
      /\ HasMarker(CellOf(n)) => rounds_df[n].was_triple_stumper = PyBool(TRUE)
      /\ IF ExpectedAttempts(CellOf(n)) = <<>>
         THEN /\ rounds_df[n].responders
                   = <<[name |-> None, was_correct |-> None]>>
              /\ rounds_df[n].was_triple_stumper = PyBool(TRUE)
         ELSE rounds_df[n].responders = ExpectedAttempts(CellOf(n))

\* C21's case: a parsed clue whose fragment has a correct responder, a wrong
\* responder and the marker: two attempts, the correct one first, and
\* was_triple_stumper = true
C21_Witness ==
  \E n \in 1..Len(rounds_df) :
    /\ CellOf(n).right # <<>>
    /\ CellOf(n).wrong = <<Bob, TripleStumper>>
    /\ rounds_df[n].responders
         = <<[name |-> PyStr(Amy), was_correct |-> PyBool(TRUE)],
             [name |-> PyStr(Bob), was_correct |-> PyBool(FALSE)]>>
    /\ rounds_df[n].was_triple_stumper = PyBool(TRUE)

\* the page parses at every stage and its names resolve
GoodPage(page) ==
  /\ page.missing = {}
  /\ \A r \in 1..Len(page.rounds) : BoardShapeOk(page.rounds[r])
  /\ FinalShapeOk(page.final)
  /\ NamesResolve(UniqueNames(MergedFrame(page)), page.contestants)

\* C22: on a page whose metadata, rounds and final round parse and whose
\* names resolve, the scrape_episode of episode_scraper.py does not raise,
\* and the game-level fields it reads (date, show_num, contestants,
\* game_notes) are keys of the dict parse_metadata returned. Violated:
\* parse_metadata returns no 'game_notes' and meta['game_notes'] raises
\* KeyError.
C22_ModularCompletes ==
  (entry = "modular" /\ meta # <<>>) =>
    /\ {"date", "show_num", "contestants", "game_notes"} \subseteq DOMAIN meta
    /\ (pc = "raised" => ~GoodPage(doc))

\* the category component of a coordinate: the digit before the last '_'
CategoryIndex(clue_location) ==
  DigitVal(clue_location[2][Len(clue_location[2]) - 2])

\* C23: the category of a regular-round clue is the category declared at the
\* index its coordinate names: the assignment of the categories and the
\* table of the coordinates follow the same traversal order.
C23_CategoryMatchesCoordinate ==
  \A n \in 1..Len(rounds_df) :
    /\ CategoryIndex(rounds_df[n].clue_location) \in 1..NumCategories
    /\ rounds_df[n].category
         = Text(doc.rounds[RoundOf(n)].categories[
                  CategoryIndex(rounds_df[n].clue_location)])

\* C23's case: the eighth clue of each round, the second clue of the second
\* category
C23_Witness ==
  /\ Len(rounds_df) = 2 * NumClues
  /\ rounds_df[8].clue_location = PyStr(<<"J", "_", "2", "_", "2">>)
  /\ rounds_df[8].category = Text("J2")
  /\ rounds_df[NumClues + 8].clue_location
       = PyStr(<<"D", "J", "_", "2", "_", "2">>)
  /\ rounds_df[NumClues + 8].category = Text("D2")

=============================================================================
